---- MODULE Spec2Model ----
(***************************************************************************)
(* State-machine model of bot.py: the per-requester state kept in          *)
(* context.user_data, the foreground handlers (on_callback, on_message),   *)
(* the bounded downloader (download_http) and the background job           *)
(* (runner / process_job).                                                 *)
(*                                                                         *)
(* Scheduling: the Application is built with its defaults, so updates are  *)
(* handled one at a time; a handler is one action.  runner() is a task of  *)
(* the same event loop: it advances from one await to the next, and every  *)
(* such stretch is one action.  The outcome of an awaited call (a Bot API  *)
(* call, an ffprobe/ffmpeg run) is chosen when the task resumes.           *)
(*                                                                         *)
(* Bot API calls fail where the code or its specification provides for it: *)
(* the dashboard redraw, the status updates, the deliveries, the           *)
(* acknowledgment and the error report.  The one-line replies of the       *)
(* handlers and the file transfers of the platform are taken to succeed.   *)
(* Durations are in milliseconds, sizes in bytes.                          *)
(***************************************************************************)
EXTENDS Integers, Sequences, FiniteSets, TLC

\* ------------------------------------------------------------- bounds
MaxDurUnits == 2        \* probed durations go up to MaxDurUnits * DurUnit (+ a fraction)
MaxJobs == 2            \* background tasks spawned in one behaviour
MaxDirs == 2            \* job directories (uuids) created in one behaviour
MaxCfgEdits == 1        \* configuration callbacks that change a field
MaxChunks == 4          \* chunks of one streamed response body
MAX_DOWNLOAD_MB == 2    \* int(os.environ.get("MAX_DOWNLOAD_MB", ...)), scaled down

\* ---------------------------------------------------------- constants
DEFAULT_SEGMENT == 180
SEGMENT_OPTIONS == {60, 120, 180, 300}
MAX_DOWNLOAD_BYTES == MAX_DOWNLOAD_MB * 1024 * 1024
CHUNK_SIZE == 1024 * 1024
QUALITY_PRESETS == {"fast", "bal", "high"}
AUDIO_MODES == {"replace", "mix"}
SYNC_MODES == {"restart", "cont"}
ASMR_LEVELS == {"light", "med", "full"}

None == "None"
NoMsg == 0              \* dash_msg_id is None
NoChat == 0             \* dash_chat_id is None
ChatId == 1             \* update.effective_chat.id of the requester
NoDir == 0              \* work_dir is None
NoPath == <<>>          \* video_path / audio_path is None
NoLength == -1          \* resp.content_length is None

Min(a, b) == IF a < b THEN a ELSE b
Max(a, b) == IF a > b THEN a ELSE b

\* math.ceil(a / b) for a >= 0, b > 0
Ceil(a, b) == (a + b - 1) \div b

\* ------------------------------------------------------- input domains
DurUnit == 60 * 1000
Fractions == {0, 1}
\* what ffprobe can print as the duration
Durations == {u * DurUnit + f : u \in 0..MaxDurUnits, f \in Fractions}

DirIds == 1..MaxDirs
VideoNames == {"input_video.mp4"}
AudioNames == {"input_audio.mp3"}
Names == VideoNames \cup AudioNames

\* Outcome of the Bot API calls of one status update: "ok" (every call
\* succeeds), "edit_fails" (edit_message_text raises, send_message succeeds),
\* "all_fail" (both raise).
ApiResults == {"ok", "edit_fails", "all_fail"}

\* callback suffixes a client can send, valid or not
SegInputs == SEGMENT_OPTIONS \cup {90}
ModeInputs == AUDIO_MODES \cup {"bogus"}
SyncInputs == SYNC_MODES \cup {"bogus"}
QualityInputs == QUALITY_PRESETS \cup {"bogus"}
AsmrInputs == ASMR_LEVELS \cup {"bogus"}

\* response bodies: chunk sizes as iter_chunked(1024 * 1024) yields them
ChunkSizes == {0, 1, CHUNK_SIZE}
RECURSIVE SeqsUpTo(_, _)
SeqsUpTo(S, k) ==
  IF k = 0 THEN {<<>>}
  ELSE LET shorter == SeqsUpTo(S, k - 1)
       IN shorter \cup {Append(s, x) : s \in shorter, x \in S}
Bodies == SeqsUpTo(ChunkSizes, MaxChunks)
Lengths == {NoLength, 0, MAX_DOWNLOAD_BYTES, MAX_DOWNLOAD_BYTES + 1}

VARIABLES
  ud,         \* context.user_data of the requester (get_state)
  tasks,      \* the runner() tasks, by creation order
  jobs,       \* number of runner() tasks created
  dirs,       \* job directories that exist on disk
  files,      \* content of the input files: <<dir, name>> -> "absent" | "full" | "partial"
  uuids,      \* number of job ids drawn from uuid.uuid4()
  cfg_edits,  \* configuration changes made so far
  dl          \* the last call of download_http: the response, then the result

vars == <<ud, tasks, jobs, dirs, files, uuids, cfg_edits, dl>>

\* ------------------------------------------------------------ get_state
InitUd ==
  [seg_len |-> DEFAULT_SEGMENT, audio_mode |-> "replace", sync_mode |-> "cont",
   quality |-> "bal", cleanup |-> TRUE, asmr_level |-> "full",
   expected |-> None, job_running |-> FALSE, cancel |-> FALSE,
   work_dir |-> NoDir, video_path |-> NoPath, audio_path |-> NoPath,
   dash_chat_id |-> NoChat, dash_msg_id |-> NoMsg]

\* ----------------------------------------------------------- file system
Paths == DirIds \X Names

\* shutil.rmtree(work_dir, ignore_errors=True)
RmTree(fs, dir) ==
  [dirs |-> fs.dirs \ {dir},
   files |-> [p \in Paths |-> IF p[1] = dir THEN "absent" ELSE fs.files[p]]]

\* ensure_job_dir(ud, user_id, reset): the requester state and the disk after
\* the call; new_id is the job id uuid4 yields when a directory is made.
ensure_job_dir(u, fs, reset, new_id) ==
  LET wipe == reset /\ u.work_dir # NoDir
      u1 == IF wipe
            THEN [u EXCEPT !.work_dir = NoDir, !.video_path = NoPath, !.audio_path = NoPath]
            ELSE u
      fs1 == IF wipe THEN RmTree(fs, u.work_dir) ELSE fs
  IN IF u1.work_dir = NoDir
     THEN [ud |-> [u1 EXCEPT !.work_dir = new_id],
           dirs |-> fs1.dirs \cup {new_id}, files |-> fs1.files, made |-> TRUE]
     ELSE [ud |-> u1, dirs |-> fs1.dirs, files |-> fs1.files, made |-> FALSE]

\* ------------------------------------------------ send_or_update_dashboard
\* The id of the next message the chat platform creates.  The program never
\* compares ids, it only hands the ones it holds back to the platform, so an
\* id nobody holds any more stands for a new one.
HeldMsgIds == {ud.dash_msg_id} \cup {tasks[j].dash_msg_id : j \in DOMAIN tasks}
NewMsgId == CHOOSE m \in 1..(Cardinality(HeldMsgIds) + 1) :
              /\ m \notin HeldMsgIds
              /\ \A k \in 1..(m - 1) : k \in HeldMsgIds

\* The requester state after the call, and whether it raised.
send_or_update_dashboard(u, api, new_id) ==
  LET u1 == [u EXCEPT !.dash_chat_id = ChatId]
  IN IF u1.dash_msg_id # NoMsg /\ api = "ok"
     THEN [ud |-> u1, raised |-> FALSE]
     ELSE IF api # "all_fail"
     THEN [ud |-> [u1 EXCEPT !.dash_msg_id = new_id], raised |-> FALSE]
     ELSE [ud |-> [u1 EXCEPT !.dash_msg_id = NoMsg], raised |-> TRUE]

\* A handler that ends with the dashboard refresh of requester state u.
Refresh(u) ==
  \E api \in ApiResults : ud' = send_or_update_dashboard(u, api, NewMsgId).ud

\* ------------------------------------------------------------ download_http
\* A streaming loop without the ceiling check (sensitivity of C25).
RECURSIVE StreamUnchecked(_, _, _, _)
StreamUnchecked(body, k, downloaded, max_bytes) ==
  IF k > Len(body) THEN [raised |-> FALSE, written |-> downloaded]
  ELSE StreamUnchecked(body, k + 1, downloaded + body[k], max_bytes)

\* The streaming loop from chunk k on: bytes written, and whether the
\* ceiling check raised.
RECURSIVE Stream(_, _, _, _)
Stream(body, k, downloaded, max_bytes) ==
  IF k > Len(body) THEN [raised |-> FALSE, written |-> downloaded]
  ELSE IF body[k] = 0 THEN Stream(body, k + 1, downloaded, max_bytes)
  ELSE LET d == downloaded + body[k]
       IN IF d > max_bytes THEN [raised |-> TRUE, written |-> d]
          ELSE Stream(body, k + 1, d, max_bytes)

\* A downloader without the early rejection (sensitivity of C5).
NeverTooLarge(total, max_bytes) == FALSE

\* Advertised length above the ceiling: refused before the file is opened.
TooLargeAdvertised(total, max_bytes) == total # NoLength /\ total > max_bytes

\* download_http(url, dest, max_bytes) for a response with the given status,
\* advertised length and body.
download_http(status_ok, total, body, max_bytes) ==
  IF ~status_ok
  THEN [raised |-> TRUE, error |-> "DownloadFailed", opened |-> FALSE, written |-> 0]
  ELSE IF TooLargeAdvertised(total, max_bytes)
  THEN [raised |-> TRUE, error |-> "DownloadTooLarge", opened |-> FALSE, written |-> 0]
  ELSE LET s == Stream(body, 1, 0, max_bytes)
       IN [raised |-> s.raised,
           error |-> IF s.raised THEN "DownloadTooLarge" ELSE "none",
           opened |-> TRUE, written |-> s.written]

\* What the destination holds after a download_http call with result r, given
\* what it held before: open(dest, "wb") truncates, the loop writes the chunks.
DestAfter(before, r) ==
  IF ~r.opened THEN before
  ELSE IF r.raised THEN "partial" ELSE "full"

\* The responses of the model (status, advertised length, body), as the
\* advertised length and what download_http does with the response.
Downloads ==
  {[total |-> total, result |-> download_http(status_ok, total, body, MAX_DOWNLOAD_BYTES)] :
     status_ok \in BOOLEAN, total \in Lengths, body \in Bodies}

\* --------------------------------------------------------------- the tasks
\* A runner() task: where it is (pc), the locals of process_job, the clips
\* produced so far (start and length of each), where the latest status text
\* is shown (status_on: "surface", the message the task holds as its status
\* surface, or "new_message", a message sent for it), the exception raised
\* (error) and how the job ended (outcome).  cmd is the ffmpeg command of
\* the segment at hand.  A task that has left process_job keeps the
\* directory it ran in.
NoCmd ==
  [ss |-> 0, t |-> 0, audio_in |-> "none", audio_seek |-> FALSE,
   map_audio |-> "none", quality |-> "none"]

IdleTask ==
  [pc |-> "idle", work_dir |-> NoDir,
   seg_len |-> 0, audio_mode |-> "replace", sync_mode |-> "cont",
   quality |-> "bal", cleanup |-> FALSE, asmr_level |-> "full",
   dash_chat_id |-> NoChat, dash_msg_id |-> NoMsg, status_on |-> "none",
   video_dur |-> 0, has_vid_audio |-> FALSE, n |-> 0, i |-> 0,
   start |-> 0, length |-> 0, cmd |-> NoCmd, clips |-> <<>>,
   error |-> "none", outcome |-> "none"]

JobIds == 1..MaxJobs

\* pcs at which the task waits inside progress()
ProgressPcs == {"p_read", "p_muffle", "p_full", "p_seg", "p_done"}
\* pcs at which the task is inside process_job
PipelinePcs ==
  ProgressPcs \cup {"probe_dur", "probe_audio", "muffle", "full", "transcode",
                    "send_video", "send_doc", "ack", "report"}

\* ------------------------------------------------------------------- Init
Init ==
  /\ ud = InitUd
  /\ tasks = [j \in JobIds |-> IdleTask]
  /\ jobs = 0
  /\ dirs = {}
  /\ files = [p \in Paths |-> "absent"]
  /\ uuids = 0
  /\ cfg_edits = 0
  /\ dl = [pc |-> "idle"]

\* -------------------------------------------------------------- start_cmd
\* /start: the expectation is dropped and the dashboard redrawn.
CmdStart ==
  /\ Refresh([ud EXCEPT !.expected = None])
  /\ UNCHANGED <<tasks, jobs, dirs, files, uuids, cfg_edits, dl>>

\* ------------------------------------------------------------ on_callback
\* data == "noop" needs no action: it changes nothing.

\* data == "main" / "settings": the view is set and the dashboard redrawn
\* (the view only selects the keyboard, it is not part of the model).
CbView ==
  /\ Refresh(ud)
  /\ UNCHANGED <<tasks, jobs, dirs, files, uuids, cfg_edits, dl>>

\* data == "reset"
ResetRefused(u) == u.job_running

CbReset ==
  IF ResetRefused(ud)
  THEN UNCHANGED vars
  ELSE LET e == ensure_job_dir(ud, [dirs |-> dirs, files |-> files], TRUE, uuids + 1)
       IN /\ e.made => uuids < MaxDirs
          /\ uuids' = IF e.made THEN uuids + 1 ELSE uuids
          /\ dirs' = e.dirs
          /\ files' = e.files
          /\ Refresh([e.ud EXCEPT !.expected = None])
          /\ UNCHANGED <<tasks, jobs, cfg_edits, dl>>

\* data == "cancel"
CbCancel ==
  /\ ud' = [ud EXCEPT !.cancel = TRUE]
  /\ UNCHANGED <<tasks, jobs, dirs, files, uuids, cfg_edits, dl>>

\* data == "need_video_file" / "need_audio_file" / "need_video_url" / "need_audio_url"
Expectations == {"video_file", "audio_file", "video_url", "audio_url"}

CbNeed(what) ==
  /\ ud' = [ud EXCEPT !.expected = what]
  /\ UNCHANGED <<tasks, jobs, dirs, files, uuids, cfg_edits, dl>>

\* A settings callback: the field is written only when the value is one of
\* the allowed ones.
SetConfig(u, field, value, allowed) ==
  IF value \in allowed THEN [u EXCEPT ![field] = value] ELSE u

\* data == "seg_<sec>" / "mode_<m>" / "sync_<m>" / "q_<q>" / "asmr_<level>"
Settings ==
  ({"seg_len"} \X SegInputs) \cup ({"audio_mode"} \X ModeInputs)
    \cup ({"sync_mode"} \X SyncInputs) \cup ({"quality"} \X QualityInputs)
    \cup ({"asmr_level"} \X AsmrInputs)

Allowed(field) ==
  CASE field = "seg_len" -> SEGMENT_OPTIONS
    [] field = "audio_mode" -> AUDIO_MODES
    [] field = "sync_mode" -> SYNC_MODES
    [] field = "quality" -> QUALITY_PRESETS
    [] field = "asmr_level" -> ASMR_LEVELS

\* The edit budget: a callback that changes the configuration uses one edit.
Budget(u) ==
  /\ u # ud => cfg_edits < MaxCfgEdits
  /\ cfg_edits' = IF u # ud THEN cfg_edits + 1 ELSE cfg_edits

CbSetting(field, value) ==
  LET u == SetConfig(ud, field, value, Allowed(field))
  IN /\ Budget(u)
     /\ Refresh(u)
     /\ UNCHANGED <<tasks, jobs, dirs, files, uuids, dl>>

\* data == "toggle_cleanup"
CbToggleCleanup ==
  LET u == [ud EXCEPT !.cleanup = ~ud.cleanup]
  IN /\ Budget(u)
     /\ Refresh(u)
     /\ UNCHANGED <<tasks, jobs, dirs, files, uuids, dl>>

\* ------------------------------------------------------------- on_message
\* An on_message that does not look at the running flag (sensitivity of
\* C19).
MessageNeverRefused(u) == FALSE

MessageRefused(u) == u.job_running

\* A message while a job runs.
MsgBusy ==
  /\ MessageRefused(ud)
  /\ UNCHANGED vars

\* work_dir = ensure_job_dir(ud, user_id), the start of every other message
EnsureDir(e) ==
  /\ e.made => uuids < MaxDirs
  /\ uuids' = IF e.made THEN uuids + 1 ELSE uuids
  /\ dirs' = e.dirs

\* A message that is not a link while a link is expected.
MsgNotAUrl ==
  /\ ~MessageRefused(ud)
  /\ ud.expected \in {"video_url", "audio_url"}
  /\ LET e == ensure_job_dir(ud, [dirs |-> dirs, files |-> files], FALSE, uuids + 1)
     IN /\ EnsureDir(e)
        /\ ud' = e.ud
        /\ files' = e.files
  /\ UNCHANGED <<tasks, jobs, cfg_edits, dl>>

\* The input a successful download is adopted as.
Adopt(u, field, dest) == [u EXCEPT ![field] = dest, !.expected = None]

\* A link while a link is expected; the response advertises the length total
\* and r is what download_http does with it.
MsgUrl(total, r) ==
  /\ ~MessageRefused(ud)
  /\ ud.expected \in {"video_url", "audio_url"}
  /\ LET e == ensure_job_dir(ud, [dirs |-> dirs, files |-> files], FALSE, uuids + 1)
         video == ud.expected = "video_url"
         dest == <<e.ud.work_dir, IF video THEN "input_video.mp4" ELSE "input_audio.mp3">>
     IN /\ EnsureDir(e)
        /\ files' = [e.files EXCEPT ![dest] = DestAfter(e.files[dest], r)]
        /\ dl' = [pc |-> "in_handler", total |-> total, dest |-> dest, error |-> r.error]
        /\ IF r.raised
           THEN ud' = e.ud
           ELSE Refresh(Adopt(e.ud, IF video THEN "video_path" ELSE "audio_path", dest))
  /\ UNCHANGED <<tasks, jobs, cfg_edits>>

\* A video or audio file (name: the name it is stored under).
MsgMedia(name) ==
  /\ ~MessageRefused(ud)
  /\ ud.expected \notin {"video_url", "audio_url"}
  /\ LET e == ensure_job_dir(ud, [dirs |-> dirs, files |-> files], FALSE, uuids + 1)
         is_video == name \in VideoNames
         dest == <<e.ud.work_dir, name>>
         wrong == \/ ud.expected = "video_file" /\ ~is_video
                  \/ ud.expected = "audio_file" /\ is_video
     IN /\ EnsureDir(e)
        /\ IF wrong
           THEN /\ ud' = e.ud
                /\ files' = e.files
           ELSE /\ files' = [e.files EXCEPT ![dest] = "full"]
                /\ Refresh(Adopt(e.ud, IF is_video THEN "video_path" ELSE "audio_path", dest))
  /\ UNCHANGED <<tasks, jobs, cfg_edits, dl>>

\* Any other message (a text, a link nobody asked for).
MsgOther ==
  /\ ~MessageRefused(ud)
  /\ ud.expected \notin {"video_url", "audio_url"}
  /\ LET e == ensure_job_dir(ud, [dirs |-> dirs, files |-> files], FALSE, uuids + 1)
     IN /\ EnsureDir(e)
        /\ files' = e.files
        /\ Refresh(e.ud)
  /\ UNCHANGED <<tasks, jobs, cfg_edits, dl>>

\* ----------------------------------------------------- on_callback: "go"
\* A "go" that does not look at the running flag (sensitivity of C3).
GoNeverRefusedRunning(u) == FALSE

GoRefusedRunning(u) == u.job_running

\* A "go" that does not look at the inputs (sensitivity of C12).
GoNeverRefusedMissing(u) == FALSE

GoRefusedMissing(u) == u.video_path = NoPath \/ u.audio_path = NoPath

\* A "go" that does not raise the running flag (sensitivity of C4).
GoMarkIdle(u) == [u EXCEPT !.cancel = FALSE, !.expected = None]

\* A "go" that leaves the cancel flag as it is (sensitivity of C18).
GoMarkKeepsCancel(u) == [u EXCEPT !.job_running = TRUE, !.expected = None]

\* The requester state "go" writes before it redraws the dashboard.
GoMark(u) == [u EXCEPT !.cancel = FALSE, !.job_running = TRUE, !.expected = None]

\* process_job up to its first await: the locals are read from the requester
\* state u, the output directory is made, the first status update is issued.
JobLocals(u, dash_chat_id, dash_msg_id) ==
  [IdleTask EXCEPT
     !.pc = "p_read", !.work_dir = u.work_dir,
     !.seg_len = u.seg_len, !.audio_mode = u.audio_mode, !.sync_mode = u.sync_mode,
     !.quality = u.quality, !.cleanup = u.cleanup, !.asmr_level = u.asmr_level,
     !.dash_chat_id = dash_chat_id, !.dash_msg_id = dash_msg_id]

\* "go" refused: a reply, no change.
CbGoRefused ==
  /\ GoRefusedRunning(ud) \/ GoRefusedMissing(ud)
  /\ UNCHANGED vars

\* "go" accepted, the dashboard redraw raises: the handler ends there.
CbGoRaises ==
  /\ ~GoRefusedRunning(ud)
  /\ ~GoRefusedMissing(ud)
  /\ ud' = send_or_update_dashboard(GoMark(ud), "all_fail", NewMsgId).ud
  /\ UNCHANGED <<tasks, jobs, dirs, files, uuids, cfg_edits, dl>>

\* "go" accepted: the task is created; it starts at the handler's next await,
\* before any other update is handled.
CbGo ==
  /\ ~GoRefusedRunning(ud)
  /\ ~GoRefusedMissing(ud)
  /\ jobs < MaxJobs
  /\ \E api \in ApiResults \ {"all_fail"} :
       LET d == send_or_update_dashboard(GoMark(ud), api, NewMsgId)
       IN /\ ud' = d.ud
          /\ tasks' = [tasks EXCEPT
                         ![jobs + 1] = JobLocals(d.ud, d.ud.dash_chat_id, d.ud.dash_msg_id)]
          /\ dirs' = dirs \cup {d.ud.work_dir}
  /\ jobs' = jobs + 1
  /\ UNCHANGED <<files, uuids, cfg_edits, dl>>

\* ------------------------------------------------------------ process_job
\* A segment count that rounds down (sensitivity of C1).
SegmentCountFloor(video_dur, seg_len) == Max(1, video_dur \div (seg_len * 1000))

\* n = max(1, math.ceil(video_dur / seg_len))
SegmentCount(video_dur, seg_len) == Max(1, Ceil(video_dur, seg_len * 1000))

\* start = i * seg_len
SegmentStart(i, seg_len) == i * seg_len * 1000

\* length = min(seg_len, max(0.0, video_dur - start))
SegmentLength(i, seg_len, video_dur) ==
  Min(seg_len * 1000, Max(0, video_dur - SegmentStart(i, seg_len)))

\* A loop that does not read the cancel flag (sensitivity of C17).
CancelIgnored(u) == FALSE

\* The cancel flag as the loop reads it.
CancelObserved(u) == u.cancel

\* The head of "for i in range(n)" for the task t, reached without an await
\* from the step before: the cancel check, then the segment's bounds.
LoopTop(t, u) ==
  IF t.i >= t.n THEN [t EXCEPT !.pc = "p_done"]
  ELSE IF CancelObserved(u) THEN [t EXCEPT !.pc = "ack"]
  ELSE LET length == SegmentLength(t.i, t.seg_len, t.video_dur)
       IN IF length <= 0 THEN [t EXCEPT !.pc = "p_done"]
          ELSE [t EXCEPT !.pc = "p_seg", !.start = SegmentStart(t.i, t.seg_len),
                         !.length = length]

\* An exception that is recorded but does not leave the step (sensitivity
\* of C8).
RaiseAndStay(t, error) == [t EXCEPT !.error = error]

\* An exception inside the try block: the except clause sends the report.
Raise(t, error) == [t EXCEPT !.pc = "report", !.error = error]

\* A cleanup that runs on the success path only (sensitivity of C7).
CleanupOnSuccess(t) == t.cleanup /\ t.pc = "p_done"

\* A cleanup decided by the flag as it is at the end of the job
\* (sensitivity of C15).
CleanupLive(t) == ud.cleanup

\* Whether the finally block of process_job cleans up.
CleanupOnExit(t) == t.cleanup

\* A task that leaves process_job without the finally block of runner
\* (sensitivity of C21).
ExitWithoutFinally(j, outcome, error) ==
  /\ tasks' = [tasks EXCEPT ![j] = [IdleTask EXCEPT !.pc = "tail", !.outcome = outcome,
                                                   !.error = error,
                                                   !.work_dir = tasks[j].work_dir]]
  /\ UNCHANGED <<ud, jobs, dirs, files, uuids, cfg_edits, dl>>

\* The task leaves process_job, by a return or with the exception error: its
\* finally block, then the finally block of runner up to the await of the
\* dashboard redraw.
Exit(j, outcome, error) ==
  LET t == tasks[j]
      fs == IF CleanupOnExit(t)
            THEN RmTree([dirs |-> dirs, files |-> files], t.work_dir)
            ELSE [dirs |-> dirs, files |-> files]
      u == IF CleanupOnExit(t)
           THEN [ud EXCEPT !.work_dir = NoDir, !.video_path = NoPath, !.audio_path = NoPath]
           ELSE ud
  IN /\ ud' = [u EXCEPT !.job_running = FALSE, !.cancel = FALSE, !.dash_chat_id = ChatId]
     /\ dirs' = fs.dirs
     /\ files' = fs.files
     /\ tasks' = [tasks EXCEPT ![j] = [IdleTask EXCEPT !.pc = "tail", !.outcome = outcome,
                                                      !.error = error,
                                                      !.work_dir = t.work_dir]]
     /\ UNCHANGED <<jobs, uuids, cfg_edits, dl>>

\* The task stays in process_job as t.
Goto(j, t) ==
  /\ tasks' = [tasks EXCEPT ![j] = t]
  /\ UNCHANGED <<ud, jobs, dirs, files, uuids, cfg_edits, dl>>

\* The pc after a status update that did not raise.
AfterProgress(pc) ==
  CASE pc = "p_read" -> "probe_dur"
    [] pc = "p_muffle" -> "muffle"
    [] pc = "p_full" -> "full"
    [] pc = "p_seg" -> "transcode"

\* Whether progress() of task t tries to edit the dashboard message.
HasSurface(t) == t.dash_chat_id # NoChat /\ t.dash_msg_id # NoMsg

\* Whether progress() raises under the given outcome of the API calls.
ProgressRaises(t, api) == ~(HasSurface(t) /\ api = "ok") /\ api = "all_fail"

\* A mix that does not look at the probe of the audio stream (sensitivity
\* of C11).
MixRequested(audio_mode, has_vid_audio) == audio_mode = "mix"

\* if audio_mode == "mix" and has_vid_audio
UsesMix(audio_mode, has_vid_audio) == audio_mode = "mix" /\ has_vid_audio

\* The ffmpeg command of the segment at hand: the cut of the video, the
\* audio input (the continuous track cut alike, or the muffled track
\* looped), the audio mapped (the mix of both, or the prepared track alone)
\* and the quality preset.
TranscodeCmd(t) ==
  [ss |-> t.start, t |-> t.length,
   audio_in |-> IF t.sync_mode = "cont" THEN "audio_full" ELSE "audio_muffled",
   audio_seek |-> t.sync_mode = "cont",
   map_audio |-> IF UsesMix(t.audio_mode, t.has_vid_audio) THEN "amix" ELSE "1:a:0",
   quality |-> t.quality]

\* The code between the return of progress() and the next await.
Continue(t) ==
  IF t.pc = "p_seg"
  THEN [t EXCEPT !.pc = "transcode", !.cmd = TranscodeCmd(t)]
  ELSE [t EXCEPT !.pc = AfterProgress(t.pc)]

\* Where the text is shown after progress() returned: on the message of
\* dash_msg_id when the edit went through, else in the message just sent,
\* whose id is dropped.
StatusShownOn(t, api) ==
  IF HasSurface(t) /\ api = "ok" THEN "surface" ELSE "new_message"

\* progress(text): the edit of the dashboard message, a new message if that
\* fails, and the code up to the next await.  The locals dash_chat_id and
\* dash_msg_id are not assigned.
Progress(j, api) ==
  LET t == tasks[j]
  IN /\ t.pc \in ProgressPcs
     /\ IF ProgressRaises(t, api) THEN Goto(j, Raise(t, "progress"))
        ELSE LET t1 == [t EXCEPT !.status_on = StatusShownOn(t, api)]
             IN IF t.pc = "p_done" THEN Exit(j, "Completed", "none")
                ELSE Goto(j, Continue(t1))

\* ffprobe_duration returns d.
ProbeDuration(j, d) ==
  /\ tasks[j].pc = "probe_dur"
  /\ Goto(j, [tasks[j] EXCEPT !.pc = "probe_audio", !.video_dur = d])

\* ffprobe_duration raises.
ProbeDurationFails(j) ==
  /\ tasks[j].pc = "probe_dur"
  /\ Goto(j, Raise(tasks[j], "probe"))

\* ffprobe_has_audio returns (False too when the tool fails); n is computed
\* and the muffle step announced.
ProbeAudio(j, has) ==
  LET t == tasks[j]
  IN /\ t.pc = "probe_audio"
     /\ Goto(j, [t EXCEPT !.pc = "p_muffle", !.has_vid_audio = has,
                          !.n = SegmentCount(t.video_dur, t.seg_len)])

\* run_or_raise(cmd_muffle) returns or raises.
Muffle(j, ok) ==
  LET t == tasks[j]
  IN /\ t.pc = "muffle"
     /\ IF ~ok THEN Goto(j, Raise(t, "muffle"))
        ELSE IF t.sync_mode = "cont" THEN Goto(j, [t EXCEPT !.pc = "p_full"])
        ELSE Goto(j, LoopTop(t, ud))

\* run_or_raise(cmd_full) returns or raises.
AudioFull(j, ok) ==
  LET t == tasks[j]
  IN /\ t.pc = "full"
     /\ IF ok THEN Goto(j, LoopTop(t, ud)) ELSE Goto(j, Raise(t, "full"))

\* run_or_raise(cmd) of segment i returns or raises.
Transcode(j, ok) ==
  LET t == tasks[j]
  IN /\ t.pc = "transcode"
     /\ IF ok
        THEN Goto(j, [t EXCEPT !.pc = "send_video",
                               !.clips = Append(t.clips, <<t.start, t.length>>)])
        ELSE Goto(j, Raise(t, "transcode"))

\* A loop that steps by two (sensitivity of C16).
NextIterationSkipping(t, u) == LoopTop([t EXCEPT !.i = t.i + 2], u)

\* The loop's next iteration after segment i is delivered.
NextIteration(t, u) == LoopTop([t EXCEPT !.i = t.i + 1], u)

\* A delivery that gives up when send_video raises (sensitivity of C22).
SendVideoNoRetry(j, ok) ==
  LET t == tasks[j]
  IN /\ t.pc = "send_video"
     /\ IF ok THEN Goto(j, NextIteration(t, ud)) ELSE Goto(j, Raise(t, "delivery"))

\* send_video returns or raises.
SendVideo(j, ok) ==
  LET t == tasks[j]
  IN /\ t.pc = "send_video"
     /\ IF ok THEN Goto(j, NextIteration(t, ud)) ELSE Goto(j, [t EXCEPT !.pc = "send_doc"])

\* send_document returns or raises.
SendDocument(j, ok) ==
  LET t == tasks[j]
  IN /\ t.pc = "send_doc"
     /\ IF ok THEN Goto(j, NextIteration(t, ud)) ELSE Goto(j, Raise(t, "delivery"))

\* The send of the cancellation acknowledgment returns or raises.
CancelAck(j, ok) ==
  /\ tasks[j].pc = "ack"
  /\ IF ok THEN Exit(j, "Cancelled", "none") ELSE Goto(j, Raise(tasks[j], "ack"))

\* The send of the error report returns or raises: either way the task
\* leaves process_job, in the second case with the exception of the send.
ErrorReport(j, ok) ==
  /\ tasks[j].pc = "report"
  /\ Exit(j, "Failed", IF ok THEN "none" ELSE "report")

\* runner: the dashboard redraw of its finally block, exceptions swallowed.
RunnerTail(j) ==
  /\ tasks[j].pc = "tail"
  /\ Refresh(ud)
  /\ tasks' = [tasks EXCEPT ![j] = [IdleTask EXCEPT !.pc = "done",
                                                   !.work_dir = tasks[j].work_dir]]
  /\ UNCHANGED <<jobs, dirs, files, uuids, cfg_edits, dl>>

\* ------------------------------------------------------------------- Next
\* The handlers, for the settings callbacks in S.
Foreground(S) ==
  \/ CmdStart
  \/ CbView
  \/ CbReset
  \/ CbCancel
  \/ \E what \in Expectations : CbNeed(what)
  \/ \E s \in S : CbSetting(s[1], s[2])
  \/ CbToggleCleanup
  \/ CbGoRefused
  \/ CbGoRaises
  \/ CbGo
  \/ MsgBusy
  \/ MsgNotAUrl
  \/ \E d \in Downloads : MsgUrl(d.total, d.result)
  \/ \E name \in Names : MsgMedia(name)
  \/ MsgOther

\* The steps of the tasks, for videos whose probed duration is in D and
\* whose audio-stream probe answers in H.
Background(D, H) ==
  \E j \in JobIds :
    \/ \E api \in ApiResults : Progress(j, api)
    \/ \E d \in D : ProbeDuration(j, d)
    \/ ProbeDurationFails(j)
    \/ \E has \in H : ProbeAudio(j, has)
    \/ \E ok \in BOOLEAN : Muffle(j, ok)
    \/ \E ok \in BOOLEAN : AudioFull(j, ok)
    \/ \E ok \in BOOLEAN : Transcode(j, ok)
    \/ \E ok \in BOOLEAN : SendVideo(j, ok)
    \/ \E ok \in BOOLEAN : SendDocument(j, ok)
    \/ \E ok \in BOOLEAN : CancelAck(j, ok)
    \/ \E ok \in BOOLEAN : ErrorReport(j, ok)
    \/ RunnerTail(j)

\* The whole program: every handler, every input of the model.
Next == Foreground(Settings) \/ Background(Durations, BOOLEAN)

Spec == Init /\ [][Next]_vars

\* The state space of Spec is the product of everything a requester can do
\* around a job with everything a job can meet.  The specifications below
\* are Spec with the requester's updates and the probe results restricted
\* to those a group of properties is about; every step of each is a step of
\* Spec.

\* One job from its inputs to its end, over every probed duration: the
\* requester uploads the two files, picks a segment length, a sync mode and
\* the cleanup flag, starts the job and may cancel it.
FlowSettings == ({"seg_len"} \X SegInputs) \cup ({"sync_mode"} \X SyncInputs)

NextJob ==
  \/ CbCancel
  \/ \E s \in FlowSettings : CbSetting(s[1], s[2])
  \/ CbToggleCleanup
  \/ CbGoRefused
  \/ CbGoRaises
  \/ jobs = 0 /\ CbGo
  \/ \E name \in Names : MsgMedia(name)
  \/ Background(Durations, {TRUE})

SpecJob == Init /\ [][NextJob]_vars

\* Job after job of one requester: uploads, "go", "cancel", "reset", the
\* cleanup toggle and messages during a job, for one short video.
ShortVideo == {DurUnit + 1}

NextCtl ==
  \/ CbCancel
  \/ CbReset
  \/ CbToggleCleanup
  \/ CbGoRefused
  \/ CbGoRaises
  \/ CbGo
  \/ MsgBusy
  \/ \E name \in Names : MsgMedia(name)
  \/ Background(ShortVideo, {TRUE})

SpecCtl == Init /\ [][NextCtl]_vars

\* Collecting the inputs, by upload and by direct link, with no job.
NextIngest ==
  \/ CmdStart
  \/ CbReset
  \/ \E what \in Expectations : CbNeed(what)
  \/ MsgNotAUrl
  \/ \E d \in Downloads : MsgUrl(d.total, d.result)
  \/ \E name \in Names : MsgMedia(name)
  \/ MsgOther

SpecIngest == Init /\ [][NextIngest]_vars

\* The downloads of responses without a Content-Length header.
Unsized == {d \in Downloads : d.total = NoLength}

\* One job of one short video with everything that reaches for its inputs
\* and its directory: "reset", uploads, direct links (unsized responses), and
\* "cancel".
NextOwn ==
  \/ CbCancel
  \/ CbReset
  \/ \E what \in Expectations : CbNeed(what)
  \/ MsgBusy
  \/ \E d \in Unsized : MsgUrl(d.total, d.result)
  \/ \E name \in Names : MsgMedia(name)
  \/ CbGoRefused
  \/ jobs = 0 /\ CbGo
  \/ Background(ShortVideo, {TRUE})

SpecOwn == Init /\ [][NextOwn]_vars

\* One job of one short video under the scheduling of the event loop: a task
\* whose awaited call has returned (or raised) is resumed, so the steps of
\* each task are weakly fair.  The requester uploads, picks a segment length
\* (one, two or more segments), starts the job and may cancel it.
JobSteps(j) == Background(ShortVideo, {TRUE}) /\ tasks'[j] # tasks[j]

NextLive ==
  \/ CbCancel
  \/ \E v \in SegInputs : CbSetting("seg_len", v)
  \/ CbGoRefused
  \/ jobs = 0 /\ CbGo
  \/ \E name \in Names : MsgMedia(name)
  \/ Background(ShortVideo, {TRUE})

SpecLive == Init /\ [][NextLive]_vars /\ \A j \in JobIds : WF_vars(JobSteps(j))

\* One job of one short video, with or without an audio stream, under every
\* audio mode, sync mode and quality, and "cancel".
MixSettings ==
  ({"audio_mode"} \X ModeInputs) \cup ({"sync_mode"} \X SyncInputs)
    \cup ({"quality"} \X QualityInputs)

NextMix ==
  \/ CbCancel
  \/ \E s \in MixSettings : CbSetting(s[1], s[2])
  \/ jobs = 0 /\ CbGo
  \/ \E name \in Names : MsgMedia(name)
  \/ Background(ShortVideo, BOOLEAN)

SpecMix == Init /\ [][NextMix]_vars

\* The configuration on its own, for a deployment that leaves
\* SEGMENT_SECONDS unset and for one that sets it: DEFAULT_SEGMENT is
\* int(os.environ.get("SEGMENT_SECONDS", "180")), whatever integer that is.
SegmentSeconds == {DEFAULT_SEGMENT, 90}

InitCfg ==
  /\ \E sec \in SegmentSeconds : ud = [InitUd EXCEPT !.seg_len = sec]
  /\ tasks = [j \in JobIds |-> IdleTask]
  /\ jobs = 0
  /\ dirs = {}
  /\ files = [p \in Paths |-> "absent"]
  /\ uuids = 0
  /\ cfg_edits = 0
  /\ dl = [pc |-> "idle"]

NextCfg ==
  \/ CmdStart
  \/ CbView
  \/ \E what \in Expectations : CbNeed(what)
  \/ \E s \in Settings : CbSetting(s[1], s[2])
  \/ CbToggleCleanup

SpecCfg == InitCfg /\ [][NextCfg]_vars

\* download_http on its own: one call, for every response of the model and
\* everything the destination can hold before the call.
Contents == {"absent", "full", "partial"}

InitDL ==
  /\ ud = InitUd
  /\ tasks = [j \in JobIds |-> IdleTask]
  /\ jobs = 0
  /\ dirs = {}
  /\ files = [p \in Paths |-> "absent"]
  /\ uuids = 0
  /\ cfg_edits = 0
  /\ dl \in [pc : {"called"}, status_ok : BOOLEAN, total : Lengths, body : Bodies,
             before : Contents]

DownloadReturns ==
  /\ dl.pc = "called"
  /\ LET r == download_http(dl.status_ok, dl.total, dl.body, MAX_DOWNLOAD_BYTES)
     IN dl' = [pc |-> "returned", status_ok |-> dl.status_ok, total |-> dl.total,
               body |-> dl.body, before |-> dl.before, result |-> r,
               after |-> DestAfter(dl.before, r)]
  /\ UNCHANGED <<ud, tasks, jobs, dirs, files, uuids, cfg_edits>>

NextDL == DownloadReturns

SpecDL == InitDL /\ [][NextDL]_vars

\* ------------------------------------------------------------- properties
\* C1: for every probed duration D > 0 and segment length L, a segment loop
\* that runs to completion has produced exactly n = ceil(D / L) segments
\* (n is the number with (n - 1) * L < D <= n * L); segment i starts at
\* (i - 1) * L, segments 1..n-1 have length L, segment n has length
\* D - (n - 1) * L, and the lengths sum to D.
RECURSIVE SumLengths(_)
SumLengths(clips) ==
  IF clips = <<>> THEN 0 ELSE clips[1][2] + SumLengths(Tail(clips))

LoopCompleted(t) == t.pc = "p_done" /\ t.video_dur > 0

C1_SegmentPlan ==
  \A j \in JobIds :
    LET t == tasks[j]
        L == t.seg_len * 1000
        D == t.video_dur
        n == Len(t.clips)
    IN LoopCompleted(t) =>
         /\ n >= 1 /\ (n - 1) * L < D /\ D <= n * L
         /\ \A i \in 1..n : t.clips[i][1] = (i - 1) * L
         /\ \A i \in 1..(n - 1) : t.clips[i][2] = L
         /\ t.clips[n][2] = D - (n - 1) * L
         /\ SumLengths(t.clips) = D

\* A completed loop of three segments whose last one is shorter than L.
C1_Witness ==
  \E j \in JobIds :
    /\ LoopCompleted(tasks[j])
    /\ Len(tasks[j].clips) = 3
    /\ tasks[j].clips[3][2] < tasks[j].seg_len * 1000

\* C2: a job whose loop finds the cancel flag set before segment k has
\* produced exactly k - 1 segments and ends as Cancelled: it is never on the
\* error path, and no error report is sent for it.
CancelSeen(t) == t.pc = "ack" \/ t.error = "ack"

C2_CancelEndsCancelled ==
  \A j \in JobIds :
    CancelSeen(tasks[j]) =>
      /\ Len(tasks[j].clips) = tasks[j].i
      /\ tasks[j].pc # "report"

\* C3: a "go" request while the running flag is true changes nothing: no
\* task is created, and the cancel flag, the running flag, the inputs, the
\* working directory and the disk are as before.
GoRequest == CbGoRefused \/ CbGoRaises \/ CbGo

C3_GoWhileRunningRejected ==
  [][(ud.job_running /\ GoRequest) => UNCHANGED <<ud, tasks, jobs, dirs, files>>]_vars

\* A job in its segment loop with the running flag true: "go" is refused.
C3_Witness ==
  /\ ud.job_running
  /\ GoRefusedRunning(ud)
  /\ \E j \in JobIds : tasks[j].pc = "transcode"

\* C4: in every reachable state at most one task is inside process_job.
InPipeline == {j \in JobIds : tasks[j].pc \in PipelinePcs}

C4_OnePipeline == Cardinality(InPipeline) <= 1

\* The second job of a requester in its pipeline while the task of the first
\* one has left process_job and still waits in runner.
C4_Witness ==
  /\ jobs = 2
  /\ tasks[1].pc = "tail"
  /\ tasks[2].pc \in PipelinePcs

\* C5: for a response that advertises a length above the ceiling,
\* download_http raises without opening the destination, which holds what
\* it held before; the error is the too-large error unless the status check
\* that precedes the length check already failed.
AdvertisedTooLarge == dl.total # NoLength /\ dl.total > MAX_DOWNLOAD_BYTES

C5_AdvertisedTooLargeNeverWrites ==
  (dl.pc = "returned" /\ AdvertisedTooLarge) =>
    /\ dl.result.raised
    /\ ~dl.result.opened
    /\ dl.result.written = 0
    /\ dl.after = dl.before
    /\ dl.status_ok => dl.result.error = "DownloadTooLarge"

\* A good status, a length above the ceiling and a body that would have
\* been written.
C5_Witness ==
  /\ dl.pc = "returned"
  /\ AdvertisedTooLarge
  /\ dl.status_ok
  /\ dl.body # <<>>
  /\ dl.result.error = "DownloadTooLarge"

\* C6: after a direct-link download with no advertised length has stopped
\* past the ceiling, neither video_path nor audio_path refers to a file
\* that holds partial data.
Partial(path) == path # NoPath /\ files[path] = "partial"

C6_PartialNotAdopted ==
  (dl.pc = "in_handler" /\ dl.total = NoLength /\ dl.error = "DownloadTooLarge") =>
    ~Partial(ud.video_path) /\ ~Partial(ud.audio_path)

\* C7: when a job that started with cleanup enabled leaves process_job,
\* however it ends, its working directory is gone and work_dir, video_path
\* and audio_path are cleared in the step that makes the running flag false.
Leaves(j) == tasks[j].pc \in PipelinePcs /\ tasks'[j].pc \notin PipelinePcs

CleanedUp(dir) ==
  /\ dir \notin dirs'
  /\ \A name \in Names : files'[<<dir, name>>] = "absent"
  /\ ud'.work_dir = NoDir
  /\ ud'.video_path = NoPath
  /\ ud'.audio_path = NoPath

C7_CleanupOnEveryExit ==
  [][/\ \A j \in JobIds :
          (Leaves(j) /\ tasks[j].cleanup) => (CleanedUp(tasks[j].work_dir) /\ ~ud'.job_running)
     /\ (ud.job_running /\ ~ud'.job_running) => \E j \in JobIds : Leaves(j)]_vars

\* A job that failed, whose error report failed too, and whose directory and
\* inputs are gone.
C7_Witness ==
  \E j \in JobIds :
    /\ tasks[j].pc = "tail"
    /\ tasks[j].outcome = "Failed"
    /\ tasks[j].error = "report"
    /\ ud.work_dir = NoDir /\ ud.video_path = NoPath /\ ud.audio_path = NoPath
    /\ dirs = {}
    /\ ~ud.job_running

\* C8: once a probe, preprocessing or transcode step has failed, the task
\* is at the error report and nowhere else, with the clips it had; from
\* there its one step is to leave process_job as Failed.
StepErrors == {"probe", "muffle", "full", "transcode"}

C8_FailureAborts ==
  /\ [](\A j \in JobIds : tasks[j].error \in StepErrors => tasks[j].pc = "report")
  /\ [][\A j \in JobIds :
          /\ (tasks[j].error = "none" /\ tasks'[j].error \in StepErrors)
               => tasks'[j].clips = tasks[j].clips
          /\ (tasks[j].pc = "report" /\ tasks'[j] # tasks[j])
               => (tasks'[j].pc = "tail" /\ tasks'[j].outcome = "Failed")]_vars

\* The second segment's transcode failed after the first was delivered.
C8_Witness ==
  \E j \in JobIds :
    /\ tasks[j].pc = "report"
    /\ tasks[j].error = "transcode"
    /\ tasks[j].i = 1
    /\ Len(tasks[j].clips) = 1

\* C9: a status update never puts the job on the error path.
C9_ProgressNeverAborts ==
  \A j \in JobIds : tasks[j].pc = "report" => tasks[j].error # "progress"

\* C10: the latest status text of a job is on the surface the job will
\* edit next: a message sent because the edit failed has become that
\* surface.
C10_FallbackAdopted ==
  \A j \in JobIds :
    tasks[j].pc \in PipelinePcs => tasks[j].status_on # "new_message"

\* C11: with audio mode mix and a video without an audio stream, the
\* command of every segment is the command replace mode builds for the same
\* segment, sync mode and quality: the prepared track alone is mapped; and
\* the probe that finds no audio stream raises nothing.
MixWithoutAudio(t) == t.audio_mode = "mix" /\ ~t.has_vid_audio

C11_MixDegradesToReplace ==
  /\ [](\A j \in JobIds :
          LET t == tasks[j]
          IN (t.pc \in {"transcode", "send_video", "send_doc"} /\ MixWithoutAudio(t)) =>
               /\ t.cmd = TranscodeCmd([t EXCEPT !.audio_mode = "replace"])
               /\ t.cmd.map_audio = "1:a:0")
  /\ [][\A j \in JobIds :
          (tasks[j].pc = "probe_audio" /\ tasks'[j] # tasks[j]) =>
            (tasks'[j].pc = "p_muffle" /\ tasks'[j].error = "none")]_vars

\* A segment delivered in mix mode from a video without an audio stream.
C11_Witness ==
  \E j \in JobIds :
    /\ tasks[j].pc = "send_video"
    /\ MixWithoutAudio(tasks[j])
    /\ tasks[j].cmd.map_audio = "1:a:0"
    /\ Len(tasks[j].clips) = 1

\* C12: a "go" request while the video or the audio input is missing
\* changes nothing: the running flag stays false, no task is created, the
\* cancel flag, the inputs, the working directory and the disk are as
\* before.  The running flag is raised, and a task started, only from a
\* state with both inputs and no job running.
InputsMissing == ud.video_path = NoPath \/ ud.audio_path = NoPath

Starts(j) == tasks[j].pc = "idle" /\ tasks'[j].pc # "idle"

C12_GoWithoutInputsRejected ==
  [][/\ (InputsMissing /\ GoRequest) => UNCHANGED <<ud, tasks, jobs, dirs, files>>
     /\ (~ud.job_running /\ ud'.job_running) => ~InputsMissing
     /\ \A j \in JobIds : Starts(j) => (~InputsMissing /\ ~ud.job_running)]_vars

\* After a first job, a requester who has sent the video but not the audio.
C12_Witness ==
  /\ jobs = 1
  /\ ~ud.job_running
  /\ ud.video_path # NoPath
  /\ ud.audio_path = NoPath

\* C13: after any sequence of configuration callbacks every configuration
\* field holds a member of its fixed set: the segment length one of
\* SEGMENT_OPTIONS, the audio mode, sync mode, quality and ASMR level one of
\* their keys, the cleanup flag a boolean.
C13_ConfigInFixedSets ==
  /\ ud.seg_len \in SEGMENT_OPTIONS
  /\ ud.audio_mode \in AUDIO_MODES
  /\ ud.sync_mode \in SYNC_MODES
  /\ ud.quality \in QUALITY_PRESETS
  /\ ud.asmr_level \in ASMR_LEVELS
  /\ ud.cleanup \in BOOLEAN

\* C14: while the running flag is true no callback changes the segment
\* length, audio mode, sync mode, quality, ASMR level or cleanup flag of the
\* requester state.
Config(r) == <<r.seg_len, r.audio_mode, r.sync_mode, r.quality, r.asmr_level, r.cleanup>>

C14_NoEditsWhileRunning ==
  [][ud.job_running => Config(ud') = Config(ud)]_vars

\* C15: a job works on the configuration held when it started: the task's
\* segment length, audio mode, sync mode, quality, ASMR level and cleanup
\* decision are the requester's at the start and do not change while the
\* task is in process_job, whatever the callbacks do to the requester state;
\* the segment bounds, the continuous-track step, the command of each
\* segment and the cleanup at the end follow the task's values.
C15_SnapshotApplied ==
  [][\A j \in JobIds :
       LET t == tasks[j]
           t2 == tasks'[j]
       IN /\ Starts(j) => Config(t2) = Config(ud)
          /\ (t.pc \in PipelinePcs /\ t2.pc \in PipelinePcs) => Config(t2) = Config(t)
          /\ (t.pc \in PipelinePcs /\ t2.pc = "p_seg" /\ t.pc # "p_seg") =>
               /\ t2.start = t2.i * t.seg_len * 1000
               /\ t2.length = Min(t.seg_len * 1000, t.video_dur - t2.start)
          /\ (t.pc \in PipelinePcs /\ t2.pc \in {"p_full", "full"}) => t.sync_mode = "cont"
          /\ (t.pc = "p_seg" /\ t2.pc = "transcode") =>
               /\ t2.cmd.quality = t.quality
               /\ t2.cmd.audio_seek = (t.sync_mode = "cont")
               /\ (t2.cmd.map_audio = "amix") => t.audio_mode = "mix"
          /\ Leaves(j) => (t.work_dir \in dirs' <=> ~t.cleanup)]_vars

\* A segment produced under a configuration the requester has changed
\* since the job started.
C15_Witness ==
  \E j \in JobIds :
    /\ tasks[j].pc = "send_video"
    /\ Len(tasks[j].clips) = 1
    /\ Config(tasks[j]) # Config(ud)

\* C16: the steps of a job are sequential and ordered.  The muffle step
\* starts only after the two probes, in that order; the continuous-track
\* step only after the muffle step, and only in continuous sync mode; the
\* first segment only after the last preprocessing step; segment i + 1 only
\* after segment i is transcoded and delivered; and a transcode in flight is
\* that of the one segment not yet produced.
Enters(j, pc) == tasks[j].pc # pc /\ tasks'[j].pc = pc

LastPreprocessing(t) == IF t.sync_mode = "cont" THEN "full" ELSE "muffle"

C16_StepsInOrder ==
  /\ [](\A j \in JobIds :
          tasks[j].pc \in {"p_seg", "transcode"} => Len(tasks[j].clips) = tasks[j].i)
  /\ [][\A j \in JobIds :
          LET t == tasks[j]
              t2 == tasks'[j]
          IN /\ Enters(j, "probe_dur") => t.pc = "p_read"
             /\ Enters(j, "probe_audio") => t.pc = "probe_dur"
             /\ Enters(j, "p_muffle") => t.pc = "probe_audio"
             /\ Enters(j, "muffle") => t.pc = "p_muffle"
             /\ Enters(j, "p_full") => (t.pc = "muffle" /\ t.sync_mode = "cont")
             /\ Enters(j, "full") => t.pc = "p_full"
             /\ (Enters(j, "p_seg") /\ t2.i = 0) => t.pc = LastPreprocessing(t)
             /\ (Enters(j, "p_seg") /\ t2.i > 0) =>
                  /\ t.pc \in {"send_video", "send_doc"}
                  /\ t2.i = t.i + 1
                  /\ Len(t.clips) = t2.i
             /\ Enters(j, "transcode") => t.pc = "p_seg"
             /\ Enters(j, "send_video") => t.pc = "transcode"
             /\ Enters(j, "send_doc") => t.pc = "send_video"]_vars

\* The second segment transcoded and on delivery, after a first one of a
\* full segment length.
C16_Witness ==
  \E j \in JobIds :
    /\ tasks[j].pc = "send_video"
    /\ tasks[j].i = 1
    /\ Len(tasks[j].clips) = 2
    /\ tasks[j].clips[1][2] = tasks[j].seg_len * 1000

\* C17: a cancel request does not touch the task.  With the cancel flag
\* set, a transcode in flight ends as it would have, delivered or failed;
\* after the delivery the job is at the acknowledgment, or at the completion
\* announcement when the segment was the last one, and never at a further
\* segment.
C17_CancelAtBoundaryOnly ==
  [][/\ (~ud.cancel /\ ud'.cancel) => tasks' = tasks
     /\ \A j \in JobIds :
          LET t == tasks[j]
              t2 == tasks'[j]
          IN /\ (ud.cancel /\ t.pc = "transcode" /\ t2 # t) =>
                  \/ t2.pc = "send_video" /\ t2.clips = Append(t.clips, <<t.start, t.length>>)
                  \/ t2.pc = "report" /\ t2.error = "transcode"
             /\ (ud.cancel /\ t.pc \in {"send_video", "send_doc"} /\ t2 # t) =>
                  /\ t2.pc \in {"send_doc", "ack", "p_done", "report"}
                  /\ t2.clips = t.clips
                  /\ t2.pc = "p_done" => t.i + 1 = t.n]_vars

\* Cancel requested, the first of several segments transcoded and on
\* delivery.
C17_Witness ==
  \E j \in JobIds :
    /\ ud.cancel
    /\ tasks[j].pc = "send_video"
    /\ tasks[j].i = 0
    /\ tasks[j].n >= 2
    /\ Len(tasks[j].clips) = 1

\* C18: the cancel flag is false when the running flag is raised and when
\* a task starts, whatever it was before, and it is false when a job has
\* just left process_job.
C18_CancelResetAtStartAndEnd ==
  [][/\ (~ud.job_running /\ ud'.job_running) => ~ud'.cancel
     /\ \A j \in JobIds :
          /\ Starts(j) => ~ud'.cancel
          /\ Leaves(j) => ~ud'.cancel]_vars

\* A second job just started with the cancel flag false, while the first,
\* which was cancelled, is still in runner.
C18_Witness ==
  /\ tasks[1].pc = "tail"
  /\ tasks[1].outcome = "Cancelled"
  /\ tasks[2].pc = "p_read"
  /\ ~ud.cancel

\* C19: while the running flag is true, a step that is not the job leaving
\* process_job changes neither work_dir, video_path and audio_path nor the
\* directories and files on disk: "reset" and messages are refused.
C19_JobOwnsItsDirectory ==
  [][(ud.job_running /\ ~(\E j \in JobIds : Leaves(j))) =>
       /\ ud'.work_dir = ud.work_dir
       /\ ud'.video_path = ud.video_path
       /\ ud'.audio_path = ud.audio_path
       /\ dirs' = dirs
       /\ files' = files]_vars

\* A job at a transcode, its directory and inputs in place, while the
\* requester has asked to send a link.
C19_Witness ==
  /\ ud.job_running
  /\ ud.expected = "video_url"
  /\ tasks[1].pc = "transcode"
  /\ tasks[1].work_dir = ud.work_dir
  /\ ud.work_dir \in dirs
  /\ files[ud.video_path] = "full"
  /\ files[ud.audio_path] = "full"

\* C20: no two jobs of the requester run in the same working directory
\* (and so in the same output subdirectory).
C20_DirectoriesNotShared ==
  \A j, k \in JobIds :
    (j < k /\ tasks[j].work_dir # NoDir /\ tasks[k].work_dir # NoDir) =>
      tasks[j].work_dir # tasks[k].work_dir

\* C21: under the fair scheduling of the tasks, a task inside process_job
\* eventually leaves it; the step that leaves it records one of Completed,
\* Cancelled and Failed and leaves the running flag and the cancel flag
\* false, so that "go" is no longer refused for a running job.
Outcomes == {"Completed", "Cancelled", "Failed"}

C21_JobLeavesRunning ==
  /\ \A j \in JobIds : (tasks[j].pc \in PipelinePcs) ~> (tasks[j].pc \notin PipelinePcs)
  /\ [][\A j \in JobIds :
          Leaves(j) => /\ tasks'[j].outcome \in Outcomes
                       /\ ~ud'.job_running
                       /\ ~ud'.cancel
                       /\ ~GoRefusedRunning(ud')]_vars

\* A job of two segments that was cancelled during the first one and has
\* left process_job.
C21_Witness ==
  /\ tasks[1].pc = "tail"
  /\ tasks[1].outcome = "Cancelled"
  /\ ~ud.job_running
  /\ ~ud.cancel

\* C22: the segment just transcoded is the next thing delivered, and nothing
\* is transcoded while a delivery is pending: at a delivery step the clips
\* are those of segments 0..i, at a transcode those of segments 0..i-1.
\* send_video is entered from the transcode of the same segment only, and
\* send_document from a send_video of the same segment only; after
\* send_video the task retries as a document or moves on to segment i + 1;
\* after send_document it moves on to segment i + 1 or, when that failed
\* too, reports the error with no clip added and ends as Failed.
AfterDelivery(t, t2) ==
  t2.i = t.i + 1 /\ t2.clips = t.clips /\ t2.pc \in {"p_seg", "p_done", "ack"}

C22_DeliveredOnceInOrder ==
  /\ [](\A j \in JobIds :
          LET t == tasks[j]
          IN /\ t.pc \in {"send_video", "send_doc"} => (Len(t.clips) = t.i + 1 /\ t.i < t.n)
             /\ t.pc = "transcode" => Len(t.clips) = t.i)
  /\ [][\A j \in JobIds :
          LET t == tasks[j]
              t2 == tasks'[j]
          IN /\ (t2.pc = "send_video" /\ t2 # t) =>
                  (t.pc = "transcode" /\ t2.i = t.i /\ t2.clips = Append(t.clips, <<t.start, t.length>>))
             /\ (t2.pc = "send_doc" /\ t2 # t) =>
                  (t.pc = "send_video" /\ t2.i = t.i /\ t2.clips = t.clips)
             /\ (t.pc = "send_video" /\ t2 # t) =>
                  (t2.pc = "send_doc" \/ AfterDelivery(t, t2))
             /\ (t.pc = "send_doc" /\ t2 # t) =>
                  \/ AfterDelivery(t, t2)
                  \/ t2.pc = "report" /\ t2.error = "delivery" /\ t2.clips = t.clips
             /\ (t.pc = "report" /\ t.error = "delivery" /\ t2 # t) =>
                  (t2.pc = "tail" /\ t2.outcome = "Failed")]_vars

\* The second segment of a job, rejected as a video and about to be retried
\* as a document.
C22_Witness ==
  /\ tasks[1].pc = "send_doc"
  /\ tasks[1].i = 1
  /\ Len(tasks[1].clips) = 2

\* C23: at most one task that can still write the requester's state exists:
\* a task inside process_job or in the tail of runner, whose dashboard
\* redraw assigns dash_chat_id and dash_msg_id.
Writers == {j \in JobIds : tasks[j].pc \in PipelinePcs \cup {"tail"}}

C23_OneWritingTask == Cardinality(Writers) <= 1

\* C24: whenever the running flag is true a task is inside process_job, the
\* task whose runner will clear the flag.
C24_RunningHasTask == ud.job_running => InPipeline # {}

\* C25: for a response with a good status and no advertised length,
\* download_http writes the chunks up to and including the first one that
\* takes the byte count above the ceiling and raises the too-large error
\* there, so that at most ceiling + one chunk is written; a body that never
\* goes above the ceiling is written whole and its size is returned.
RECURSIVE BodySum(_, _)
BodySum(body, k) == IF k = 0 THEN 0 ELSE BodySum(body, k - 1) + body[k]

OverAt(body) == {k \in 1..Len(body) : BodySum(body, k) > MAX_DOWNLOAD_BYTES}

FirstOver(body) == CHOOSE k \in OverAt(body) : \A m \in OverAt(body) : k <= m

C25_StreamingCeiling ==
  (dl.pc = "returned" /\ dl.status_ok /\ dl.total = NoLength) =>
    /\ dl.result.opened
    /\ dl.result.written <= MAX_DOWNLOAD_BYTES + CHUNK_SIZE
    /\ IF OverAt(dl.body) = {}
       THEN /\ ~dl.result.raised
            /\ dl.result.error = "none"
            /\ dl.result.written = BodySum(dl.body, Len(dl.body))
            /\ dl.after = "full"
       ELSE /\ dl.result.raised
            /\ dl.result.error = "DownloadTooLarge"
            /\ dl.result.written = BodySum(dl.body, FirstOver(dl.body))

\* A body that goes above the ceiling at its third chunk and has a full
\* chunk after it.
C25_Witness ==
  /\ dl.pc = "returned"
  /\ dl.status_ok
  /\ dl.total = NoLength
  /\ Len(dl.body) = 4
  /\ OverAt(dl.body) = {3, 4}
  /\ dl.body[4] = CHUNK_SIZE
  /\ dl.result.raised

====
